---------------------------- MODULE Spec2Model ----------------------------
(***************************************************************************)
(* A model of 1lann/beacon: the hostname routing tables (handler.go), the  *)
(* per-connection packet loop (handleConnection and its dispatch), the     *)
(* wire codec it drives (protocol/read.go, protocol/stream.go, the Packet  *)
(* builder) and the forwarder (forwardConnection).                         *)
(*                                                                         *)
(* Bytes are the numbers 0..255, a string is the sequence of its bytes and *)
(* a socket is the sequence of bytes written to it.  One client connection *)
(* is modelled; the routing tables are process-wide.                       *)
(*                                                                         *)
(* Specifications: Spec (routing calls, the connection and its forwarder), *)
(* SpecLive (Spec with the goroutines of the forwarder scheduled fairly),  *)
(* SpecRouter (the routing tables alone), SpecListen (the accept loop,     *)
(* Stop and the connection in flight), SpecCodec (the reader and the       *)
(* writer of the codec on a stream of their own) and SpecStatus            *)
(* (WriteHandshakeResponse over a range of protocol numbers).              *)
(*                                                                         *)
(* What the model takes from the environment:                              *)
(*   - a write to an open socket succeeds (the error returns of            *)
(*     WritePacket are not taken), the dial and the first write to the     *)
(*     upstream may fail;                                                  *)
(*   - a Handler function reads the Player and does not write to it;       *)
(*   - Forward is called with a non-empty address, SetStatus with a        *)
(*     non-nil status, Handle with a non-nil function;                     *)
(*   - a pass of the packet loop is one step, taken once the bytes its     *)
(*     reads wait for have arrived or the client has ended the stream;     *)
(*   - the routing calls are not concurrent with a pass, and are made      *)
(*     while the connection is in its packet loop.                         *)
(***************************************************************************)
EXTENDS Integers, Sequences, FiniteSets, TLC

(***************************************************************************)
(* Bounds of the model.                                                    *)
(***************************************************************************)
\* longest hostname list handed to one routing call
MaxHosts == 2
\* frames the client sends on the connection
MaxSends == 3
\* chunks the upstream server sends on a forwarded connection
MaxUpstreamSends == 1
\* bytes of earlier sends that may still be unread when the client sends again
MaxUnread == 0

\* connections Listen accepts, the one in flight included
MaxAccepts == 2
\* packets written and not yet framed by the reader
MaxPackets == 2
\* largest protocol number handed to WriteHandshakeResponse, past the release table
MaxProtocol == 109

(***************************************************************************)
(* Generic helpers on sequences and maps.  A Go map is a function whose    *)
(* domain is the set of bound keys.                                        *)
(***************************************************************************)
Min(a, b) == IF a < b THEN a ELSE b

Reverse(s) == [i \in 1..Len(s) |-> s[Len(s) + 1 - i]]

Take(s, k) == SubSeq(s, 1, k)

Drop(s, k) == SubSeq(s, k + 1, Len(s))

IsPrefix(s, t) == Len(s) <= Len(t) /\ SubSeq(t, 1, Len(s)) = s

EmptyMap == [k \in {} |-> k]

MapPut(m, k, v) == [x \in (DOMAIN m) \cup {k} |-> IF x = k THEN v ELSE m[x]]

MapDelete(m, k) == [x \in (DOMAIN m) \ {k} |-> m[x]]

(***************************************************************************)
(* strings.ToLower, on the ASCII bytes the model's hostnames are made of.  *)
(***************************************************************************)
\* a ToLowerByte that folds nothing
ToLowerByteKeep(b) == b

ToLowerByte(b) == IF b >= 65 /\ b <= 90 THEN b + 32 ELSE b

ToLower(s) == [i \in 1..Len(s) |-> ToLowerByte(s[i])]

(***************************************************************************)
(* The inputs the embedder and the peers are drawn from.                   *)
(***************************************************************************)
\* the hostnames the embedder configures: "Mc", "mc", "MC" and "x"
HostArgs == { <<77, 99>>, <<109, 99>>, <<77, 67>>, <<120>> }

\* the spellings of the one hostname configured while a connection is served
ServedHostArgs == { <<77, 99>>, <<109, 99>>, <<77, 67>> }

RECURSIVE SeqsUpTo(_, _)
SeqsUpTo(S, n) ==
    IF n = 0 THEN { <<>> }
    ELSE LET shorter == SeqsUpTo(S, n - 1)
         IN  shorter \cup { Append(q, x) : q \in { t \in shorter : Len(t) = n - 1 }, x \in S }

HostLists(args) == SeqsUpTo(args, MaxHosts) \ { <<>> }

\* ping.Status values: the spec's example, and one whose message must be escaped
\* ("a\"b"), that hides the connection and names a protocol past the release table
StatusValues ==
    { [OnlinePlayers |-> 3, MaxPlayers |-> 100, Message |-> <<104, 105>>,
       ShowConnection |-> TRUE, ProtocolNumber |-> 47],
      [OnlinePlayers |-> 0, MaxPlayers |-> 20, Message |-> <<97, 34, 98>>,
       ShowConnection |-> FALSE, ProtocolNumber |-> 108] }

\* Handler functions the embedder may install, by name: see HandlerMessage
HandlerFns == { "greet", "motd" }

\* upstream addresses (with a port, as Forward requires)
Addresses == { "upstream:25565" }

(***************************************************************************)
(* State.                                                                  *)
(***************************************************************************)
VARIABLES
    statuses,      \* handler.go: var statuses, hostname -> Status
    handlers,      \* handler.go: var handlers, hostname -> Handler
    forwarders,    \* handler.go: var forwarders, hostname -> address
    player,        \* the connection's Player
    pc,            \* where handleConnection is: "loop", "forward", "wait", "done"
    cin,           \* bytes the client has sent that nobody has read yet
    term,          \* the client's end of the stream: "open", "fin", "rst"
    written,       \* bytes the last step of handleConnection wrote to the client
    last,          \* what that step did (the line the code logs, or its branch),
                   \* and whether the connection's login has been rejected
    remote,        \* remoteConn: "none", "open", "closed"
    tunnel,        \* once forwarding: the bytes the client sent, from the frame
                   \* of the forwarding handshake on
    upIn,          \* bytes the upstream server has received
    usent,         \* bytes the upstream server has sent
    upos,          \* how many of them the proxy has read
    uterm,         \* the upstream's end of the stream: "open", "fin"
    tunOut,        \* bytes the forwarder has written to the client
    c2u,           \* the copier client -> upstream: "idle", "copy", "send", "exit"
    u2c,           \* the copier upstream -> client
    sends,         \* frames the client has sent
    usends,        \* chunks the upstream has sent
    conn,          \* the server's end of the client socket: "open", "closed"
    hooks,         \* OnForwardConnect / OnForwardDisconnect: how often each has
                   \* been started, whether the deferred call of
                   \* OnForwardDisconnect is pending (1) or not (0), and whether
                   \* each was installed when forwardConnection ran
    listener,      \* the listening socket (closed or not), where Listen is
                   \* ("accept", or returned "nil" / "err") and how many
                   \* connections it has accepted
    codec          \* a stream of its own on which the codec is exercised: see
                   \* FreshCodec

routerVars == <<statuses, handlers, forwarders>>

connVars == <<player, pc, cin, term, written, last, sends, conn>>

forwardVars == <<remote, tunnel, upIn, usent, upos, uterm, tunOut, c2u, u2c, usends, hooks>>

\* what the connection and the routing calls leave alone
otherVars == <<listener, codec>>

vars == <<statuses, handlers, forwarders, player, pc, cin, term, written, last, sends,
          remote, tunnel, upIn, usent, upos, uterm, tunOut, c2u, u2c, usends,
          conn, hooks, listener, codec>>

(***************************************************************************)
(* The routing table's operations.  Each is a loop over the hostnames      *)
(* given, lowercasing each one.                                            *)
(***************************************************************************)
RECURSIVE SetStatusLoop(_, _, _)
SetStatusLoop(st, hostnames, status) ==
    IF hostnames = <<>> THEN st
    ELSE SetStatusLoop(MapPut(st, ToLower(Head(hostnames)), status),
                       Tail(hostnames), status)

RECURSIVE ClearStatusLoop(_, _)
ClearStatusLoop(st, hostnames) ==
    IF hostnames = <<>> THEN st
    ELSE LET hostname == ToLower(Head(hostnames))
         IN  ClearStatusLoop(IF hostname \in DOMAIN st THEN MapDelete(st, hostname) ELSE st,
                             Tail(hostnames))

\* a Handle loop body that leaves the forwarder bound
HandleOneKeep(t, hostname, handler) ==
    [handlers   |-> MapPut(t.handlers, ToLower(hostname), handler),
     forwarders |-> t.forwarders]

\* one pass of Handle's loop body over the pair of tables
HandleOne(t, hostname, handler) ==
    [handlers   |-> MapPut(t.handlers, ToLower(hostname), handler),
     forwarders |-> IF ToLower(hostname) \in DOMAIN t.forwarders
                    THEN MapDelete(t.forwarders, ToLower(hostname))
                    ELSE t.forwarders]

RECURSIVE HandleLoop(_, _, _)
HandleLoop(t, hostnames, handler) ==
    IF hostnames = <<>> THEN t
    ELSE HandleLoop(HandleOne(t, Head(hostnames), handler), Tail(hostnames), handler)

\* one pass of Forward's loop body
ForwardOne(t, hostname, address) ==
    [handlers   |-> IF ToLower(hostname) \in DOMAIN t.handlers
                    THEN MapDelete(t.handlers, ToLower(hostname))
                    ELSE t.handlers,
     forwarders |-> MapPut(t.forwarders, ToLower(hostname), address)]

RECURSIVE ForwardLoop(_, _, _)
ForwardLoop(t, hostnames, address) ==
    IF hostnames = <<>> THEN t
    ELSE ForwardLoop(ForwardOne(t, Head(hostnames), address), Tail(hostnames), address)

\* a ClearHandlers loop body that empties the forwarder table
ClearHandlersOneAll(t, hostname) ==
    [handlers   |-> IF ToLower(hostname) \in DOMAIN t.handlers
                    THEN MapDelete(t.handlers, ToLower(hostname))
                    ELSE t.handlers,
     forwarders |-> EmptyMap]

\* one pass of ClearHandlers' loop body
ClearHandlersOne(t, hostname) ==
    [handlers   |-> IF ToLower(hostname) \in DOMAIN t.handlers
                    THEN MapDelete(t.handlers, ToLower(hostname))
                    ELSE t.handlers,
     forwarders |-> IF ToLower(hostname) \in DOMAIN t.forwarders
                    THEN MapDelete(t.forwarders, ToLower(hostname))
                    ELSE t.forwarders]

RECURSIVE ClearHandlersLoop(_, _)
ClearHandlersLoop(t, hostnames) ==
    IF hostnames = <<>> THEN t
    ELSE ClearHandlersLoop(ClearHandlersOne(t, Head(hostnames)), Tail(hostnames))

Routes == [handlers |-> handlers, forwarders |-> forwarders]

(***************************************************************************)
(* The Packet builder (package protocol, type Packet): a Packet is its Data. *)
(***************************************************************************)
\* the loop of WriteVarInt64 on a non-negative uint64
RECURSIVE WriteVarUint(_)
WriteVarUint(ui) ==
    IF ui \div 128 = 0 THEN <<ui>>
    ELSE <<(ui % 128) + 128>> \o WriteVarUint(ui \div 128)

\* the same loop on uint64(data) for data < 0: nine groups of the two's
\* complement (\div rounds down, as the arithmetic shift does), then bit 63
RECURSIVE WriteVarNeg(_, _)
WriteVarNeg(data, size) ==
    IF size = 9 THEN <<1>>
    ELSE <<(data % 128) + 128>> \o WriteVarNeg(data \div 128, size + 1)

WriteVarInt64(data) == IF data >= 0 THEN WriteVarUint(data) ELSE WriteVarNeg(data, 0)

WriteVarInt(data) == WriteVarInt64(data)

WriteString(data) == WriteVarInt(Len(data)) \o data

\* binary.BigEndian.PutUint16
WriteUInt16(data) == <<data \div 256, data % 256>>

\* A 64-bit value is held as four 16-bit limbs, least significant first.
\* binary.BigEndian.PutUint64: the most significant byte first.
WriteInt64(data) ==
    <<data[4] \div 256, data[4] % 256, data[3] \div 256, data[3] % 256,
      data[2] \div 256, data[2] % 256, data[1] \div 256, data[1] % 256>>

NewPacketWithID(id) == WriteVarInt(id)

\* a WritePacket that writes the data without its length
WritePacketUnframed(p) == p

\* Stream.WritePacket: the bytes handed to the one Write call
WritePacket(p) == WriteVarInt(Len(p)) \o p

(***************************************************************************)
(* encoding/json as the ping package uses it: json.Marshal of a string and *)
(* of the statusResponse struct.  Printable ASCII only; Marshal escapes    *)
(* the quote, the backslash and, for HTML safety, the characters & < >.    *)
(***************************************************************************)
JSONEscapeByte(b) ==
    IF b = 34 THEN <<92, 34>>
    ELSE IF b = 92 THEN <<92, 92>>
    ELSE IF b = 38 THEN <<92, 117, 48, 48, 50, 54>>
    ELSE IF b = 60 THEN <<92, 117, 48, 48, 51, 99>>
    ELSE IF b = 62 THEN <<92, 117, 48, 48, 51, 101>>
    ELSE <<b>>

RECURSIVE JSONEscape(_)
JSONEscape(s) == IF s = <<>> THEN <<>> ELSE JSONEscapeByte(Head(s)) \o JSONEscape(Tail(s))

JSONString(s) == <<34>> \o JSONEscape(s) \o <<34>>

RECURSIVE Digits(_)
Digits(n) == IF n < 10 THEN <<48 + n>> ELSE Digits(n \div 10) \o <<48 + (n % 10)>>

JSONInt(n) == IF n < 0 THEN <<45>> \o Digits(0 - n) ELSE Digits(n)

\* var releaseNames
releaseNames ==
    << [protocol |-> 4,   name |-> <<49, 46, 55, 46, 53>>],
       [protocol |-> 5,   name |-> <<49, 46, 55, 46, 49, 48>>],
       [protocol |-> 47,  name |-> <<49, 46, 56, 46, 57>>],
       [protocol |-> 107, name |-> <<49, 46, 57>>] >>

\* a loop that compares with < where getReleaseName compares with <=
RECURSIVE getReleaseNameBelow(_, _)
getReleaseNameBelow(protocolNumber, i) ==
    IF i > Len(releaseNames) THEN <<102, 117, 116, 117, 114, 101>>
    ELSE IF protocolNumber < releaseNames[i].protocol THEN releaseNames[i].name
    ELSE getReleaseNameBelow(protocolNumber, i + 1)

RECURSIVE getReleaseNameFrom(_, _)
getReleaseNameFrom(protocolNumber, i) ==
    IF i > Len(releaseNames) THEN <<102, 117, 116, 117, 114, 101>>
    ELSE IF protocolNumber <= releaseNames[i].protocol THEN releaseNames[i].name
    ELSE getReleaseNameFrom(protocolNumber, i + 1)

getReleaseName(protocolNumber) == getReleaseNameFrom(protocolNumber, 1)

\* json.Marshal(statusResponse{...}) in WriteHandshakeResponse
MarshalStatusResponse(status) ==
    <<123, 34, 118, 101, 114, 115, 105, 111, 110, 34, 58, 123, 34, 110, 97, 109, 101, 34, 58>>
    \o JSONString(<<49, 108, 97, 110, 110, 47, 98, 101, 97, 99, 111, 110, 32>>
                  \o getReleaseName(status.ProtocolNumber))
    \o <<44, 34, 112, 114, 111, 116, 111, 99, 111, 108, 34, 58>>
    \o JSONInt(status.ProtocolNumber)
    \o <<125, 44, 34, 112, 108, 97, 121, 101, 114, 115, 34, 58, 123, 34, 109, 97, 120, 34, 58>>
    \o JSONInt(status.MaxPlayers)
    \o <<44, 34, 111, 110, 108, 105, 110, 101, 34, 58>>
    \o JSONInt(status.OnlinePlayers)
    \o <<125, 44, 34, 100, 101, 115, 99, 114, 105, 112, 116, 105, 111, 110, 34, 58>>
    \o JSONString(status.Message)
    \o <<125>>

\* ping.WriteHandshakeResponse: the bytes written to the client
WriteHandshakeResponse(status) ==
    WritePacket(NewPacketWithID(0) \o WriteString(MarshalStatusResponse(status)))

\* ping.DisplayMessage: the bytes written to the client
DisplayMessage(message) ==
    WritePacket(NewPacketWithID(0) \o WriteString(JSONString(message)))

(***************************************************************************)
(* The Stream reader (protocol/read.go, protocol/stream.go).               *)
(*                                                                         *)
(* A reader r is what a Stream or PacketStream reads from:                 *)
(*   buf   the bytes the client has sent and nobody has read yet,          *)
(*   term  "open", or how the client ended the stream: "fin" (end of file  *)
(*         once buf is drained) or "rst" (every read fails),               *)
(*   lim   whether an io.LimitedReader bounds it, and N its budget,        *)
(*   n     the bytes read from the connection through r so far.            *)
(* A read returns [err, val, r]; err is "nil", an error, or "block" when   *)
(* the read would wait for bytes the client has not sent yet.              *)
(***************************************************************************)
NewStream(buf, t) == [buf |-> buf, term |-> t, lim |-> FALSE, N |-> 0, n |-> 0]

Advance(r, k) ==
    [r EXCEPT !.buf = Drop(r.buf, k), !.n = r.n + k,
              !.N = IF r.lim THEN r.N - k ELSE r.N]

\* Stream.ReadFull(make([]byte, k)): io.ReadFull over the connection or over
\* the LimitedReader (which answers EOF once N <= 0 and never reads past N)
ReadFull(r, k) ==
    LET want == IF r.lim THEN (IF r.N <= 0 THEN 0 ELSE Min(k, r.N)) ELSE k
        have == Len(r.buf)
    IN  IF k = 0 THEN [err |-> "nil", val |-> <<>>, r |-> r]
        ELSE IF want = 0 THEN [err |-> "EOF", val |-> <<>>, r |-> r]
        ELSE IF r.term = "rst" THEN [err |-> "ECONNRESET", val |-> <<>>, r |-> r]
        ELSE IF have >= want
             THEN [err |-> IF want = k THEN "nil" ELSE "ErrUnexpectedEOF",
                   val |-> Take(r.buf, want), r |-> Advance(r, want)]
        ELSE IF r.term = "open" THEN [err |-> "block", val |-> <<>>, r |-> r]
        ELSE [err |-> IF have = 0 THEN "EOF" ELSE "ErrUnexpectedEOF",
              val |-> r.buf, r |-> Advance(r, have)]

\* a DecodeReadFull that leaves the buffer as read
DecodeReadFullRaw(r, k) == ReadFull(r, k)

\* Stream.DecodeReadFull: ReadFull, then the buffer is reversed in place
DecodeReadFull(r, k) ==
    LET Decoded(f) == IF f.err # "nil" THEN f ELSE [f EXCEPT !.val = Reverse(f.val)]
    IN  Decoded(ReadFull(r, k))

ReadByte(r) ==
    LET First(f) == IF f.err # "nil" THEN [f EXCEPT !.val = 0]
                    ELSE [f EXCEPT !.val = f.val[1]]
    IN  First(ReadFull(r, 1))

\* binary.LittleEndian.Uint16
LittleEndianUint16(b) == b[1] + 256 * b[2]

ReadUInt16(r) ==
    LET Value(f) == IF f.err # "nil" THEN [f EXCEPT !.val = 0]
                    ELSE [f EXCEPT !.val = LittleEndianUint16(f.val)]
    IN  Value(DecodeReadFull(r, 2))

\* binary.LittleEndian.Uint64, as four 16-bit limbs, least significant first
LittleEndianUint64(b) ==
    <<b[1] + 256 * b[2], b[3] + 256 * b[4], b[5] + 256 * b[6], b[7] + 256 * b[8]>>

ReadInt64(r) ==
    LET Value(f) == IF f.err # "nil" THEN [f EXCEPT !.val = <<0, 0, 0, 0>>]
                    ELSE [f EXCEPT !.val = LittleEndianUint64(f.val)]
    IN  Value(DecodeReadFull(r, 8))

RECURSIVE Pow128(_)
Pow128(size) == IF size = 0 THEN 1 ELSE 128 * Pow128(size - 1)

\* (uint64(b) & 0x7F) << (size * 7), for the values the model's integers hold:
\* a zero group at any place, a group of the low 28 bits, the groups 4..8 of a
\* sign extension (all ones: together they are -2^28 once bit 63 is set) and
\* bit 63 itself; of the tenth byte only the lowest bit stays within 64 bits.
\* Any other group is outside the model's integers and stops the evaluation.
Group(b, size, signExtended) ==
    IF b % 128 = 0 THEN 0
    ELSE IF size < 4 THEN (b % 128) * Pow128(size)
    ELSE IF signExtended /\ size < 9 /\ b % 128 = 127 THEN 0
    ELSE IF signExtended /\ size = 9 /\ b % 2 = 1 THEN 0 - Pow128(4)
    ELSE IF size = 9 /\ b % 2 = 0 THEN 0
    ELSE CHOOSE x \in {} : TRUE

\* whether the bytes at the head of buf are a 10-byte VarInt whose groups 4..8
\* are all ones and whose bit 63 is set (a negative 64-bit value of small size)
SignExtended(buf) ==
    /\ Len(buf) >= 10
    /\ \A i \in 5..9 : buf[i] = 255
    /\ \A i \in 1..4 : buf[i] >= 128
    /\ buf[10] < 128 /\ buf[10] % 2 = 1

\* the loop of Stream.ReadVarInt64
RECURSIVE ReadVarInt64Loop(_, _, _, _)
ReadVarInt64Loop(r, size, num, sx) ==
    LET Step(f) ==
            IF f.err # "nil" THEN [f EXCEPT !.val = 0]
            ELSE IF size + 1 > 10 THEN [err |-> "ErrInvalidData", val |-> 0, r |-> f.r]
            ELSE IF f.val < 128
                 THEN [err |-> "nil", val |-> num + Group(f.val, size, sx), r |-> f.r]
            ELSE ReadVarInt64Loop(f.r, size + 1, num + Group(f.val, size, sx), sx)
    IN  Step(ReadByte(r))

\* a ReadVarInt64 whose first group is shifted by seven bits
ReadVarInt64Shifted(r) == ReadVarInt64Loop(r, 1, 0, SignExtended(r.buf))

ReadVarInt64(r) == ReadVarInt64Loop(r, 0, 0, SignExtended(r.buf))

ReadVarInt(r) == ReadVarInt64(r)

\* Stream.ReadString
ReadString(r) ==
    LET String(data) == IF data.err # "nil" THEN [data EXCEPT !.val = <<>>] ELSE data
        Data(l) == IF l.err # "nil" THEN [l EXCEPT !.val = <<>>]
                   ELSE IF l.val < 0 THEN [err |-> "ErrInvalidData", val |-> <<>>, r |-> l.r]
                   ELSE String(ReadFull(l.r, l.val))
    IN  Data(ReadVarInt(r))

\* Stream.GetPacketStream: val is the declared length, r the PacketStream
GetPacketStream(r) ==
    LET Limited(l) ==
            IF l.err # "nil" THEN l
            ELSE IF l.val = 0 THEN [err |-> "ErrInvalidData", val |-> 0, r |-> l.r]
            ELSE [err |-> "nil", val |-> l.val,
                  r |-> [l.r EXCEPT !.lim = TRUE, !.N = l.val]]
    IN  Limited(ReadVarInt(r))

\* PacketStream.GetRemainingBytes
GetRemainingBytes(ps) == ps.N

\* PacketStream.ExhaustPacket: val is the number of bytes it reports.
\* make([]byte, bytesRemaining) panics on a negative count.
ExhaustPacket(ps) ==
    IF ps.N = 0 THEN [err |-> "nil", val |-> 0, r |-> ps]
    ELSE IF ps.N < 0 THEN [err |-> "panic", val |-> ps.N, r |-> ps]
    ELSE [ReadFull(ps, ps.N) EXCEPT !.val = ps.N]

\* ping.ReadHandshakePacket: val is the HandshakePacket returned with the error
ZeroHandshake == [ProtocolVersion |-> 0, ServerAddress |-> <<>>, ServerPort |-> 0, NextState |-> 0]

ReadHandshakePacket(r) ==
    LET NextState(pv, sa, sp, ns) ==
            [err |-> ns.err,
             val |-> [ProtocolVersion |-> pv.val, ServerAddress |-> sa.val,
                      ServerPort |-> sp.val, NextState |-> ns.val],
             r |-> ns.r]
        ServerPort(pv, sa, sp) ==
            IF sp.err # "nil" THEN [err |-> sp.err, val |-> ZeroHandshake, r |-> sp.r]
            ELSE NextState(pv, sa, sp, ReadVarInt(sp.r))
        ServerAddress(pv, sa) ==
            IF sa.err # "nil" THEN [err |-> sa.err, val |-> ZeroHandshake, r |-> sa.r]
            ELSE ServerPort(pv, sa, ReadUInt16(sa.r))
        ProtocolVersion(pv) ==
            IF pv.err # "nil" THEN [err |-> pv.err, val |-> ZeroHandshake, r |-> pv.r]
            ELSE ServerAddress(pv, ReadString(pv.r))
    IN  ProtocolVersion(ReadVarInt(r))

(***************************************************************************)
(* The embedder's Handler functions, by name: "greet" returns "Hello "     *)
(* followed by the player's Username, "motd" returns the text Hi" (whose   *)
(* quote json.Marshal must escape).  Neither writes to the Player.         *)
(***************************************************************************)
HandlerMessage(fn, p) ==
    IF fn = "greet" THEN <<72, 101, 108, 108, 111, 32>> \o p.Username
    ELSE <<72, 105, 34>>

\* "Connection rejected. There is no server on this hostname."
RejectMessage ==
    <<67, 111, 110, 110, 101, 99, 116, 105, 111, 110, 32, 114, 101, 106, 101, 99,
      116, 101, 100, 46, 32, 84, 104, 101, 114, 101, 32, 105, 115, 32, 110, 111,
      32, 115, 101, 114, 118, 101, 114, 32, 111, 110, 32, 116, 104, 105, 115, 32,
      104, 111, 115, 116, 110, 97, 109, 101, 46>>

\* &ping.Status{ShowConnection: false} of handlePacketID1
DefaultStatus ==
    [OnlinePlayers |-> 0, MaxPlayers |-> 0, Message |-> <<>>,
     ShowConnection |-> FALSE, ProtocolNumber |-> 0]

(***************************************************************************)
(* The packet handlers.  Each returns what it did:                         *)
(*   player  the Player afterwards,   r    the PacketStream afterwards,    *)
(*   out     the bytes it wrote to the client,                             *)
(*   err     the error it returned,   branch  the branch it took,          *)
(*   blocked whether one of its reads waits for bytes not sent yet.        *)
(***************************************************************************)
Handled(p, r, out, err, branch) ==
    [player |-> p, r |-> r, out |-> out, err |-> err, branch |-> branch,
     blocked |-> err = "block"]

\* a HandlePingPacket that leaves the nonce unread when the connection is hidden
HandlePingPacketSkipping(p, s, status) ==
    LET Echo(time) ==
            IF time.err # "nil" THEN Handled(p, time.r, <<>>, time.err, "ping failed")
            ELSE Handled(p, time.r,
                         WritePacket(NewPacketWithID(1) \o WriteInt64(time.val)),
                         "nil", "ping echoed")
    IN  IF ~status.ShowConnection THEN Handled(p, s, <<>>, "nil", "ping dropped")
        ELSE Echo(ReadInt64(s))

\* ping.HandlePingPacket
HandlePingPacket(p, s, status) ==
    LET Echo(time) ==
            IF ~status.ShowConnection
            THEN [Handled(p, time.r, <<>>, "nil", "ping dropped")
                      EXCEPT !.blocked = (time.err = "block")]
            ELSE IF time.err # "nil" THEN Handled(p, time.r, <<>>, time.err, "ping failed")
            ELSE Handled(p, time.r,
                         WritePacket(NewPacketWithID(1) \o WriteInt64(time.val)),
                         "nil", "ping echoed")
    IN  Echo(ReadInt64(s))

handlePacketID1(p, ps) ==
    IF GetRemainingBytes(ps) = 0 THEN Handled(p, ps, <<>>, "nil", "ping empty")
    ELSE HandlePingPacket(p, ps, IF p.Hostname \in DOMAIN statuses
                                 THEN statuses[p.Hostname] ELSE DefaultStatus)

\* an initial packet that carries the lowercased hostname
InitialPacketLowered(handshake) ==
    NewPacketWithID(0) \o WriteVarInt(handshake.ProtocolVersion)
                       \o WriteString(ToLower(handshake.ServerAddress))
                       \o WriteUInt16(handshake.ServerPort)
                       \o WriteVarInt(handshake.NextState)

\* the Packet that handlePacketID0 builds from the handshake it read
InitialPacketOf(handshake) ==
    NewPacketWithID(0) \o WriteVarInt(handshake.ProtocolVersion)
                       \o WriteString(handshake.ServerAddress)
                       \o WriteUInt16(handshake.ServerPort)
                       \o WriteVarInt(handshake.NextState)

\* a handshake that takes any next state as the connection's State
handleHandshakeAnyState(p, ps) ==
    LET Route(hs, hostname) ==
            IF hs.err = "block" THEN Handled(p, hs.r, <<>>, "block", "handshake")
            ELSE IF hostname \in DOMAIN forwarders
            THEN Handled([p EXCEPT !.Hostname = hostname,
                                   !.InitialPacket = InitialPacketOf(hs.val),
                                   !.ForwardAddress = forwarders[hostname],
                                   !.State = hs.val.NextState],
                         hs.r, <<>>, "nil",
                         IF hs.err = "nil" THEN "handshake forwarded"
                         ELSE "handshake read error, forwarded")
            ELSE Handled([p EXCEPT !.Hostname = hostname, !.State = hs.val.NextState],
                         hs.r, <<>>, "nil",
                         IF hs.err = "nil" THEN "handshake" ELSE "handshake read error")
        Read(hs) == Route(hs, ToLower(hs.val.ServerAddress))
    IN  Read(ReadHandshakePacket(ps))

\* handlePacketID0, State 1 with a body: the handshake
handleHandshake(p, ps) ==
    LET Route(hs, hostname) ==
            IF hs.err = "block" THEN Handled(p, hs.r, <<>>, "block", "handshake")
            ELSE IF hostname \in DOMAIN forwarders
            THEN Handled([p EXCEPT !.Hostname = hostname,
                                   !.InitialPacket = InitialPacketOf(hs.val),
                                   !.ForwardAddress = forwarders[hostname],
                                   !.State = hs.val.NextState],
                         hs.r, <<>>, "nil",
                         IF hs.err = "nil" THEN "handshake forwarded"
                         ELSE "handshake read error, forwarded")
            ELSE Handled([p EXCEPT !.Hostname = hostname,
                                   !.State = IF hs.val.NextState = 1 THEN 1
                                             ELSE IF hs.val.NextState = 2 THEN 2
                                             ELSE @],
                         hs.r, <<>>, "nil",
                         IF hs.err = "nil" THEN "handshake" ELSE "handshake read error")
        Read(hs) == Route(hs, ToLower(hs.val.ServerAddress))
    IN  Read(ReadHandshakePacket(ps))

\* a login that calls the handler before it stores the username
handleLoginEarly(p, ps) ==
    LET Reply(username, p1) ==
            IF username.err # "nil"
            THEN Handled(p, username.r, <<>>, username.err, "login failed")
            ELSE IF p1.Hostname \notin DOMAIN handlers
            THEN Handled(p1, username.r, DisplayMessage(RejectMessage), "nil",
                         "login rejected")
            ELSE Handled(p1, username.r,
                         DisplayMessage(HandlerMessage(handlers[p1.Hostname], p)),
                         "nil", "login handled")
        Read(username) == Reply(username, [p EXCEPT !.Username = username.val])
    IN  Read(ReadString(ps))

\* a login that marks the connection for closing when it rejects
handleLoginClosing(p, ps) ==
    LET Reply(username, p1) ==
            IF username.err # "nil"
            THEN Handled(p, username.r, <<>>, username.err, "login failed")
            ELSE IF p1.Hostname \notin DOMAIN handlers
            THEN Handled([p1 EXCEPT !.ShouldClose = TRUE], username.r,
                         DisplayMessage(RejectMessage), "nil", "login rejected")
            ELSE Handled(p1, username.r,
                         DisplayMessage(HandlerMessage(handlers[p1.Hostname], p1)),
                         "nil", "login handled")
        Read(username) == Reply(username, [p EXCEPT !.Username = username.val])
    IN  Read(ReadString(ps))

\* handlePacketID0, State 2 with a body: login start
handleLogin(p, ps) ==
    LET Reply(username, p1) ==
            IF username.err # "nil"
            THEN Handled(p, username.r, <<>>, username.err, "login failed")
            ELSE IF p1.Hostname \notin DOMAIN handlers
            THEN Handled(p1, username.r, DisplayMessage(RejectMessage), "nil",
                         "login rejected")
            ELSE Handled(p1, username.r,
                         DisplayMessage(HandlerMessage(handlers[p1.Hostname], p1)),
                         "nil", "login handled")
        Read(username) == Reply(username, [p EXCEPT !.Username = username.val])
    IN  Read(ReadString(ps))

\* a status request that closes after it has answered
handleStatusRequestClosing(p, ps) ==
    IF p.State # 1 THEN Handled(p, ps, <<>>, "nil", "status ignored")
    ELSE IF p.Hostname \notin DOMAIN statuses
    THEN Handled([p EXCEPT !.ShouldClose = TRUE], ps, <<>>, "nil", "status missing")
    ELSE Handled([p EXCEPT !.ShouldClose = TRUE], ps,
                 WriteHandshakeResponse(statuses[p.Hostname]), "nil", "status sent")

\* a status request that goes on when the hostname has no status
handleStatusRequestOpen(p, ps) ==
    IF p.State # 1 THEN Handled(p, ps, <<>>, "nil", "status ignored")
    ELSE IF p.Hostname \notin DOMAIN statuses
    THEN Handled(p, ps, <<>>, "nil", "status missing")
    ELSE Handled(p, ps, WriteHandshakeResponse(statuses[p.Hostname]), "nil", "status sent")

\* handlePacketID0, an empty body: the status request
handleStatusRequest(p, ps) ==
    IF p.State # 1 THEN Handled(p, ps, <<>>, "nil", "status ignored")
    ELSE IF p.Hostname \notin DOMAIN statuses
    THEN Handled([p EXCEPT !.ShouldClose = TRUE], ps, <<>>, "nil", "status missing")
    ELSE Handled(p, ps, WriteHandshakeResponse(statuses[p.Hostname]), "nil", "status sent")

\* a handlePacketID0 that takes a packet 0 with a body for a handshake in
\* every State
handlePacketID0Rehandshake(p, ps) ==
    IF GetRemainingBytes(ps) = 0 THEN handleStatusRequest(p, ps)
    ELSE handleHandshake(p, ps)

handlePacketID0(p, ps) ==
    IF GetRemainingBytes(ps) = 0 THEN handleStatusRequest(p, ps)
    ELSE IF p.State = 1 THEN handleHandshake(p, ps)
    ELSE IF p.State = 2 THEN handleLogin(p, ps)
    ELSE Handled(p, ps, <<>>, "nil", "no case")

(***************************************************************************)
(* One pass of handleConnection's packetLoop.  next is where the goroutine *)
(* is afterwards: "loop" (the next pass), "forward" (break packetLoop) or  *)
(* "done" (return: the deferred conn.Close() has run).                     *)
(***************************************************************************)
Pass(h, next, exhausted) ==
    [player |-> h.player, r |-> h.r, out |-> h.out, err |-> h.err, branch |-> h.branch,
     blocked |-> h.blocked, next |-> next, exhausted |-> exhausted]

\* the end of the loop body: ExhaustPacket, whose error is only logged
exhaustAndLoop(h) ==
    LET Exhausted(x) ==
            IF h.blocked THEN Pass(h, "loop", 0)
            ELSE [Pass([h EXCEPT !.r = x.r], "loop", x.val)
                      EXCEPT !.blocked = (x.err = "block")]
    IN  Exhausted(ExhaustPacket(h.r))

\* a dispatch that stays in the loop when a forward address is set
dispatchLocal(p, packetID, ps) ==
    IF packetID = 0 THEN exhaustAndLoop(handlePacketID0(p, ps))
    ELSE IF packetID = 1 THEN exhaustAndLoop(handlePacketID1(p, ps))
    ELSE IF packetID = 122 THEN Pass(Handled(p, ps, <<>>, "nil", "quit"), "done", 0)
    ELSE exhaustAndLoop(Handled(p, ps, <<>>, "nil", "unknown packet ID"))

dispatch(p, packetID, ps) ==
    LET Case0(h) == IF ~h.blocked /\ h.player.ForwardAddress # ""
                    THEN Pass(h, "forward", 0)
                    ELSE exhaustAndLoop(h)
    IN  IF packetID = 0 THEN Case0(handlePacketID0(p, ps))
        ELSE IF packetID = 1 THEN exhaustAndLoop(handlePacketID1(p, ps))
        ELSE IF packetID = 122 THEN Pass(Handled(p, ps, <<>>, "nil", "quit"), "done", 0)
        ELSE exhaustAndLoop(Handled(p, ps, <<>>, "nil", "unknown packet ID"))

packetLoop(p, s) ==
    LET Dispatch(packetID) ==
            IF packetID.err # "nil"
            THEN Pass(Handled(p, packetID.r, <<>>, packetID.err,
                              "failed to read packet ID"), "done", 0)
            ELSE dispatch(p, packetID.val, packetID.r)
        Framed(packetStream) ==
            IF packetStream.err # "nil"
            THEN Pass(Handled(p, packetStream.r, <<>>, packetStream.err,
                              "failed to read next packet"), "done", 0)
            ELSE Dispatch(ReadVarInt(packetStream.r))
    IN  IF p.ShouldClose THEN Pass(Handled(p, s, <<>>, "nil", "should close"), "done", 0)
        ELSE Framed(GetPacketStream(s))

(***************************************************************************)
(* What the peers send.  The client's frames are written out byte by byte, *)
(* as a client would put them on the wire:                                 *)
(*   a handshake is  length, id 0, VarInt protocol, string address,        *)
(*   uint16 port (25565 = 99, 221), VarInt next state.                     *)
(***************************************************************************)
\* the server addresses the client names: "Mc" and "x"
ClientAddresses == { <<77, 99>>, <<120>> }

\* {proto 47, "Mc", 25565, next} and {proto 404, "x", 25565, next}
HandshakeFrame(addr, next) ==
    IF addr = <<77, 99>> THEN <<8, 0, 47, 2, 77, 99, 99, 221, next>>
    ELSE <<8, 0, 148, 3, 1, 120, 99, 221, next>>

\* the handshake frames whose VarInts are the shortest encodings and whose
\* declared length is the length of the id and the four fields
CanonicalHandshakes ==
    { HandshakeFrame(addr, next) : addr \in ClientAddresses, next \in {1, 2} }

\* {47, "Mc", 25565, 2} with the protocol 47 encoded in two bytes (175, 0)
PaddedHandshake == <<9, 0, 175, 0, 2, 77, 99, 99, 221, 2>>

\* {47, "Mc", 25565, 2} with one more byte inside the frame
LongHandshake == <<9, 0, 47, 2, 77, 99, 99, 221, 2, 7>>

\* {5, "x", 25565, 3}: a next state that is neither status nor login
OddHandshake == <<7, 0, 5, 1, 120, 99, 221, 3>>

\* {47, "Mc", 25565} and no next state: the frame ends after the port
TruncatedHandshake == <<7, 0, 47, 2, 77, 99, 99, 221>>

\* packet 0 with an empty body
StatusRequest == <<1, 0>>

\* packet 0 with the string "Al"
LoginStart == <<4, 0, 2, 65, 108>>

\* the 8 bytes of the nonces 0x0123456789ABCDEF and 0xFF00000000000080
Nonces == { <<1, 35, 69, 103, 137, 171, 205, 239>>, <<255, 0, 0, 0, 0, 0, 0, 128>> }

PingFrame(nonce) == <<9, 1>> \o nonce

QuitFrame == <<1, 122>>

\* a frame of declared length 0
EmptyFrame == <<0>>

\* a handshake and the login start behind it, sent in one write
PipelinedLogin == HandshakeFrame(<<77, 99>>, 2) \o LoginStart

ClientFrames ==
    CanonicalHandshakes
    \cup { PaddedHandshake, LongHandshake, OddHandshake, TruncatedHandshake,
           PipelinedLogin,
           StatusRequest, LoginStart, QuitFrame, EmptyFrame }
    \cup { PingFrame(nonce) : nonce \in Nonces }

\* what the client sends once the proxy forwards: the forwarder does not parse it
TunnelFrames == { LoginStart }

UpstreamChunks == { <<2, 0, 9>> }

(***************************************************************************)
(* The stream on which the codec is exercised on its own, away from the    *)
(* handler: a writer puts bytes on it and a reader takes them off.         *)
(*   wire   the bytes written and not yet read,                            *)
(*   term   "open", or "fin" once the writer has ended the stream,         *)
(*   wrote  what the writer wrote last, and arg its argument,              *)
(*   sent   the Data of the packets WritePacket wrote that GetPacketStream *)
(*          has not framed yet,                                            *)
(*   raw    whether bytes are (or were) on the wire that the reader does   *)
(*          not take off packet by packet,                                 *)
(*   open   whether the reader holds a PacketStream, L its declared        *)
(*          length, N its LimitedReader's budget, n the bytes read from    *)
(*          the stream through it, read those bytes, cur the Data of the   *)
(*          packet it frames (<<Data>>, or <<>> when WritePacket wrote     *)
(*          none),                                                         *)
(*   op     the reader's last call, err and val what it returned.          *)
(***************************************************************************)
FreshCodec ==
    [wire |-> <<>>, term |-> "open", wrote |-> "none", arg |-> 0, sent |-> <<>>,
     raw |-> FALSE, open |-> FALSE, L |-> 0, N |-> 0, n |-> 0, read |-> <<>>,
     cur |-> <<>>, op |-> "none", err |-> "nil", val |-> 0]

(***************************************************************************)
(* The initial state: the tables are empty (the three make(map...)) and    *)
(* one connection has been accepted, its Player as handleConnection        *)
(* constructs it.                                                          *)
(***************************************************************************)
Init ==
    /\ statuses = EmptyMap
    /\ handlers = EmptyMap
    /\ forwarders = EmptyMap
    /\ player = [Username |-> <<>>, Hostname |-> <<>>, ShouldClose |-> FALSE,
                 ForwardAddress |-> "", InitialPacket |-> <<>>, State |-> 1]
    /\ pc = "loop"
    /\ cin = <<>>
    /\ term = "open"
    /\ written = <<>>
    /\ last = [branch |-> "accepted", err |-> "nil", exhausted |-> 0, n |-> 0,
               rejected |-> FALSE]
    /\ sends = 0
    /\ remote = "none"
    /\ tunnel = <<>>
    /\ upIn = <<>>
    /\ usent = <<>>
    /\ upos = 0
    /\ uterm = "open"
    /\ tunOut = <<>>
    /\ c2u = "idle"
    /\ u2c = "idle"
    /\ usends = 0
    /\ conn = "open"
    /\ hooks = [connects |-> 0, disconnects |-> 0, deferred |-> 0,
                onConnect |-> FALSE, onDisconnect |-> FALSE]
    /\ listener = [closed |-> FALSE, loop |-> "accept", accepted |-> 1]
    /\ codec = FreshCodec

(***************************************************************************)
(* The routing table's operations, as the embedder calls them.             *)
(***************************************************************************)
SetStatus(hostnames, status) ==
    /\ statuses' = SetStatusLoop(statuses, hostnames, status)
    /\ UNCHANGED <<handlers, forwarders, connVars, forwardVars, otherVars>>

ClearStatus(hostnames) ==
    /\ statuses' = ClearStatusLoop(statuses, hostnames)
    /\ UNCHANGED <<handlers, forwarders, connVars, forwardVars, otherVars>>

Handle(hostnames, handler) ==
    /\ handlers' = HandleLoop(Routes, hostnames, handler).handlers
    /\ forwarders' = HandleLoop(Routes, hostnames, handler).forwarders
    /\ UNCHANGED <<statuses, connVars, forwardVars, otherVars>>

Forward(hostnames, address) ==
    /\ handlers' = ForwardLoop(Routes, hostnames, address).handlers
    /\ forwarders' = ForwardLoop(Routes, hostnames, address).forwarders
    /\ UNCHANGED <<statuses, connVars, forwardVars, otherVars>>

ClearHandlers(hostnames) ==
    /\ handlers' = ClearHandlersLoop(Routes, hostnames).handlers
    /\ forwarders' = ClearHandlersLoop(Routes, hostnames).forwarders
    /\ UNCHANGED <<statuses, connVars, forwardVars, otherVars>>

(***************************************************************************)
(* The client.                                                             *)
(***************************************************************************)
ClientSend(frame) ==
    /\ term = "open"
    /\ pc # "done"
    /\ sends < MaxSends
    /\ Len(cin) <= MaxUnread
    /\ pc # "loop" => frame \in TunnelFrames
    /\ cin' = cin \o frame
    /\ tunnel' = IF pc \in {"forward", "wait"} THEN tunnel \o frame ELSE tunnel
    /\ sends' = sends + 1
    /\ UNCHANGED <<routerVars, player, pc, term, written, last, conn,
                   remote, upIn, usent, upos, uterm, tunOut, c2u, u2c, usends, hooks,
                   otherVars>>

\* the client closes its socket ("fin") or the connection breaks ("rst")
ClientClose(how) ==
    /\ term = "open"
    /\ term' = how
    /\ UNCHANGED <<routerVars, player, pc, cin, written, last, sends, conn, forwardVars,
                   otherVars>>

(***************************************************************************)
(* handleConnection: one pass of packetLoop, run when its reads can all    *)
(* complete.                                                               *)
(***************************************************************************)
handleConnection ==
    /\ pc = "loop"
    /\ \E pass \in { packetLoop(player, NewStream(cin, term)) } :
           /\ ~pass.blocked
           /\ player' = pass.player
           /\ pc' = pass.next
           /\ cin' = pass.r.buf
           /\ written' = pass.out
           /\ last' = [branch |-> pass.branch, err |-> pass.err,
                       exhausted |-> pass.exhausted, n |-> pass.r.n,
                       rejected |-> last.rejected \/ pass.branch = "login rejected"]
           /\ tunnel' = IF pass.next = "forward" THEN cin ELSE tunnel
           /\ conn' = IF pass.next = "done" THEN "closed" ELSE conn
    /\ UNCHANGED <<routerVars, term, sends,
                   remote, upIn, usent, upos, uterm, tunOut, c2u, u2c, usends, hooks,
                   otherVars>>

(***************************************************************************)
(* forwardConnection, up to the spawning of the two copiers.  The dial and *)
(* the first write to the upstream each succeed or fail.  onConnect and    *)
(* onDisconnect say whether OnForwardConnect and OnForwardDisconnect are   *)
(* installed (not nil) when forwardConnection tests them.                  *)
(***************************************************************************)
\* a start of OnForwardConnect whatever the player's State
StartedAlways(onConnect) == IF onConnect THEN 1 ELSE 0

\* how many OnForwardConnect goroutines this call starts (0 or 1)
Started(onConnect) == IF onConnect /\ player.State = 2 THEN 1 ELSE 0

\* how many calls of OnForwardDisconnect this call defers (0 or 1)
Deferred(onConnect, onDisconnect) ==
    IF onConnect /\ player.State = 2 /\ onDisconnect THEN 1 ELSE 0

forwardConnection(outcome, onConnect, onDisconnect) ==
    /\ pc = "forward"
    /\ \/ /\ outcome = "dial failed"
          /\ pc' = "done"
          /\ conn' = "closed"
          /\ hooks' = [hooks EXCEPT !.onConnect = onConnect, !.onDisconnect = onDisconnect]
          /\ UNCHANGED <<remote, upIn, c2u, u2c>>
       \/ /\ outcome = "write failed"
          /\ pc' = "done"
          /\ remote' = "closed"
          /\ conn' = "closed"
          /\ hooks' = [connects    |-> hooks.connects + Started(onConnect),
                       disconnects |-> hooks.disconnects
                                         + Deferred(onConnect, onDisconnect),
                       deferred    |-> 0,
                       onConnect |-> onConnect, onDisconnect |-> onDisconnect]
          /\ UNCHANGED <<upIn, c2u, u2c>>
       \/ /\ outcome = "ok"
          /\ pc' = "wait"
          /\ remote' = "open"
          /\ upIn' = upIn \o WriteVarInt(Len(player.InitialPacket)) \o player.InitialPacket
          /\ c2u' = "copy"
          /\ u2c' = "copy"
          /\ hooks' = [connects    |-> hooks.connects + Started(onConnect),
                       disconnects |-> hooks.disconnects,
                       deferred    |-> Deferred(onConnect, onDisconnect),
                       onConnect |-> onConnect, onDisconnect |-> onDisconnect]
          /\ UNCHANGED conn
    /\ UNCHANGED <<routerVars, player, cin, term, written, last, sends,
                   tunnel, usent, upos, uterm, tunOut, usends, otherVars>>

(***************************************************************************)
(* The copier goroutines: io.Copy, then the send on connChannel.  A step   *)
(* is one Read with the Write of what it read.  A Read or Write on a       *)
(* socket that forwardConnection's return has closed fails.                *)
(***************************************************************************)
\* a copier to the upstream that also writes what it read back to the client
copyClientToRemoteEcho ==
    /\ c2u = "copy"
    /\ IF pc = "done" \/ term = "rst"
       THEN c2u' = "send" /\ UNCHANGED <<cin, upIn, tunOut>>
       ELSE IF cin # <<>>
       THEN /\ cin' = <<>>
            /\ tunOut' = tunOut \o cin
            /\ IF uterm = "open"
               THEN upIn' = upIn \o cin /\ c2u' = c2u
               ELSE upIn' = upIn /\ c2u' = "send"
       ELSE /\ term = "fin"
            /\ c2u' = "send"
            /\ UNCHANGED <<cin, upIn, tunOut>>
    /\ UNCHANGED <<routerVars, player, pc, term, written, last, sends, conn,
                   remote, tunnel, usent, upos, uterm, u2c, usends, hooks,
                   otherVars>>

\* io.Copy(remoteConn, player.Connection)
copyClientToRemote ==
    /\ c2u = "copy"
    /\ IF pc = "done" \/ term = "rst"
       THEN c2u' = "send" /\ UNCHANGED <<cin, upIn>>
       ELSE IF cin # <<>>
       THEN /\ cin' = <<>>
            /\ IF uterm = "open"
               THEN upIn' = upIn \o cin /\ c2u' = c2u
               ELSE upIn' = upIn /\ c2u' = "send"
       ELSE /\ term = "fin"
            /\ c2u' = "send"
            /\ UNCHANGED <<cin, upIn>>
    /\ UNCHANGED <<routerVars, player, pc, term, written, last, sends, conn,
                   remote, tunnel, usent, upos, uterm, tunOut, u2c, usends, hooks,
                   otherVars>>

\* io.Copy(player.Connection, remoteConn)
copyRemoteToClient ==
    /\ u2c = "copy"
    /\ IF pc = "done"
       THEN u2c' = "send" /\ UNCHANGED <<upos, tunOut>>
       ELSE IF upos < Len(usent)
       THEN /\ upos' = Len(usent)
            /\ IF term = "open"
               THEN tunOut' = tunOut \o Drop(usent, upos) /\ u2c' = u2c
               ELSE tunOut' = tunOut /\ u2c' = "send"
       ELSE /\ uterm = "fin"
            /\ u2c' = "send"
            /\ UNCHANGED <<upos, tunOut>>
    /\ UNCHANGED <<routerVars, player, pc, cin, term, written, last, sends, conn,
                   remote, tunnel, upIn, usent, uterm, c2u, usends, hooks, otherVars>>

\* a return of forwardConnection that leaves the upstream socket open
forwardReturnLeak ==
    /\ pc = "wait"
    /\ \/ c2u = "send" /\ c2u' = "exit" /\ u2c' = u2c
       \/ u2c = "send" /\ u2c' = "exit" /\ c2u' = c2u
    /\ pc' = "done"
    /\ hooks' = [hooks EXCEPT !.disconnects = @ + hooks.deferred, !.deferred = 0]
    /\ conn' = "closed"
    /\ UNCHANGED <<routerVars, player, cin, term, written, last, sends, remote,
                   tunnel, upIn, usent, upos, uterm, tunOut, usends, otherVars>>

\* <-connChannel meets one copier's send; forwardConnection returns: the
\* deferred remoteConn.Close() runs, then the deferred start of
\* OnForwardDisconnect, then handleConnection's deferred conn.Close()
forwardReturn ==
    /\ pc = "wait"
    /\ \/ c2u = "send" /\ c2u' = "exit" /\ u2c' = u2c
       \/ u2c = "send" /\ u2c' = "exit" /\ c2u' = c2u
    /\ pc' = "done"
    /\ remote' = "closed"
    /\ hooks' = [hooks EXCEPT !.disconnects = @ + hooks.deferred, !.deferred = 0]
    /\ conn' = "closed"
    /\ UNCHANGED <<routerVars, player, cin, term, written, last, sends,
                   tunnel, upIn, usent, upos, uterm, tunOut, usends, otherVars>>

(***************************************************************************)
(* The upstream server.                                                    *)
(***************************************************************************)
UpstreamSend(chunk) ==
    /\ remote = "open"
    /\ uterm = "open"
    /\ usends < MaxUpstreamSends
    /\ usent' = usent \o chunk
    /\ usends' = usends + 1
    /\ UNCHANGED <<routerVars, connVars, remote, tunnel, upIn, upos, uterm, tunOut, c2u, u2c,
                   hooks, otherVars>>

UpstreamClose ==
    /\ remote = "open"
    /\ uterm = "open"
    /\ uterm' = "fin"
    /\ UNCHANGED <<routerVars, connVars, remote, tunnel, upIn, usent, upos, tunOut, c2u, u2c,
                   usends, hooks, otherVars>>

\* the routing calls, with a list of hostnames drawn from lists
Configure(lists) ==
    \/ \E hostnames \in lists, status \in StatusValues : SetStatus(hostnames, status)
    \/ \E hostnames \in lists : ClearStatus(hostnames)
    \/ \E hostnames \in lists, handler \in HandlerFns : Handle(hostnames, handler)
    \/ \E hostnames \in lists, address \in Addresses : Forward(hostnames, address)
    \/ \E hostnames \in lists : ClearHandlers(hostnames)

Next ==
    \/ (pc = "loop" /\ Configure({ <<hostname>> : hostname \in ServedHostArgs }))
    \/ \E frame \in ClientFrames : ClientSend(frame)
    \/ \E how \in {"fin", "rst"} : ClientClose(how)
    \/ handleConnection
    \/ \E outcome \in {"ok", "dial failed", "write failed"},
          onConnect \in BOOLEAN, onDisconnect \in BOOLEAN :
            forwardConnection(outcome, onConnect, onDisconnect)
    \/ copyClientToRemote
    \/ copyRemoteToClient
    \/ forwardReturn
    \/ \E chunk \in UpstreamChunks : UpstreamSend(chunk)
    \/ UpstreamClose

Spec == Init /\ [][Next]_vars

\* the same behaviours, with the scheduling the Go runtime gives the
\* forwarder: a goroutine that can take its next step (a copy whose bytes are
\* there, a channel receive that has a sender) eventually takes it
SpecLive ==
    /\ Spec
    /\ WF_vars(copyClientToRemote)
    /\ WF_vars(copyRemoteToClient)
    /\ WF_vars(forwardReturn)

\* the routing table alone, configured over all of HostArgs
SpecRouter == Init /\ [][Configure(HostLists(HostArgs))]_vars

(***************************************************************************)
(* Listen's accept loop and Stop.  Init is the state in which net.Listen   *)
(* has succeeded and one connection has been accepted; that connection is  *)
(* the one the connection variables describe, further accepted ones are    *)
(* counted only.                                                           *)
(***************************************************************************)
\* the errors listener.Accept() returns: the first is the error of a closed
\* listener, the only one whose text contains "use of closed network connection"
ClosedError == "accept tcp [::]:25565: use of closed network connection"

AcceptErrors == { ClosedError, "EOF", "accept tcp [::]:25565: accept4: too many open files" }

\* what Listen returns on an error of Accept
ListenResult(err) == IF err = ClosedError \/ err = "EOF" THEN "nil" ELSE "err"

\* a Stop that also cancels the connection in flight
StopCancelling ==
    /\ ~listener.closed
    /\ listener' = [listener EXCEPT !.closed = TRUE]
    /\ pc' = "done"
    /\ conn' = "closed"
    /\ UNCHANGED <<routerVars, player, cin, term, written, last, sends, forwardVars, codec>>

\* Stop: listener.Close()
Stop ==
    /\ ~listener.closed
    /\ listener' = [listener EXCEPT !.closed = TRUE]
    /\ UNCHANGED <<routerVars, connVars, forwardVars, codec>>

\* listener.Accept() returns a connection: go handleConnection(conn)
Accept ==
    /\ listener.loop = "accept"
    /\ ~listener.closed
    /\ listener.accepted < MaxAccepts
    /\ listener' = [listener EXCEPT !.accepted = @ + 1]
    /\ UNCHANGED <<routerVars, connVars, forwardVars, codec>>

\* listener.Accept() returns err, and Listen returns.  A closed listener's
\* Accept returns ClosedError and no open listener's does.
ListenReturn(err) ==
    /\ listener.loop = "accept"
    /\ listener.closed = (err = ClosedError)
    /\ listener' = [listener EXCEPT !.loop = ListenResult(err)]
    /\ UNCHANGED <<routerVars, connVars, forwardVars, codec>>

\* the accept loop, Stop, and the first accepted connection served from the
\* status table
NextListen ==
    \/ Stop
    \/ Accept
    \/ \E err \in AcceptErrors : ListenReturn(err)
    \/ \E hostname \in ServedHostArgs, status \in StatusValues :
           pc = "loop" /\ SetStatus(<<hostname>>, status)
    \/ \E frame \in ClientFrames : ClientSend(frame)
    \/ \E how \in {"fin", "rst"} : ClientClose(how)
    \/ handleConnection

\* Accept on a closed listener returns at once, so Listen's return after Stop
\* is a step the runtime takes
SpecListen ==
    /\ Init
    /\ [][NextListen]_vars
    /\ WF_vars(ListenReturn(ClosedError))

(***************************************************************************)
(* The codec on its own stream.  The writer's calls are WritePacket,       *)
(* WriteVarInt64 and WriteHandshakeResponse, or it puts bytes of its own   *)
(* choice on the wire as a peer can; the reader's calls are ReadVarInt64,  *)
(* GetPacketStream, the typed reads through the PacketStream it got, and   *)
(* ExhaustPacket.  A write on a drained stream starts afresh.  A read runs *)
(* when it need not wait for bytes.                                        *)
(***************************************************************************)
\* the Data of the packets written: empty, one byte, two bytes, and packet 0
\* with the string "Al"
Payloads == { <<>>, <<0>>, <<1, 65>>, <<0, 2, 65, 108>> }

\* the values written as VarInts: around the group boundaries, the largest the
\* model's four low groups hold, and negative ones
VarIntSamples ==
    { 0, 1, 127, 128, 300, 16383, 16384, 268435455, -1, -2, -128, -129, -268435456 }

\* k bytes with the high bit set and zero groups
Continuation(k) == [i \in 1..k |-> 128]

\* bytes a peer puts on the wire:
\*   10-byte VarInts of the value 0 (the tenth byte's bits above bit 63 are lost),
\*   10, 11 and 12 bytes that all continue, and 10 such bytes before a last one,
\*   a frame of declared length -1 and a byte behind it,
\*   a frame of length 4 whose handshake names a 9-byte string, and a frame behind it,
\*   a frame of declared length 3 of which 2 bytes arrive
RawInputs ==
    { Continuation(9) \o <<0>>, Continuation(9) \o <<2>>, Continuation(9) \o <<126>>,
      Continuation(10), Continuation(11), Continuation(12), Continuation(10) \o <<0>>,
      <<255, 255, 255, 255, 255, 255, 255, 255, 255, 1, 0>>,
      <<4, 0, 47, 9, 77, 1, 0>>,
      <<3, 1, 7>> }

\* the Status handed to WriteHandshakeResponse, for a protocol number
StatusOf(protocolNumber) ==
    [OnlinePlayers |-> 3, MaxPlayers |-> 100, Message |-> <<104, 105>>,
     ShowConnection |-> TRUE, ProtocolNumber |-> protocolNumber]

\* the reads a PacketStream offers, as the handler and the ping package use them
ReadKinds ==
    { "ReadByte", "ReadVarInt", "ReadString", "ReadUInt16", "ReadInt64",
      "ReadHandshakePacket", "ReadFull" }

\* the reader's Stream, or its PacketStream when it holds one
CodecReader ==
    [buf |-> codec.wire, term |-> codec.term, lim |-> codec.open, N |-> codec.N,
     n |-> codec.n]

\* ReadFull of all that GetRemainingBytes reports
ReadRemaining(ps) ==
    IF GetRemainingBytes(ps) < 0 THEN [err |-> "panic", val |-> <<>>, r |-> ps]
    ELSE ReadFull(ps, GetRemainingBytes(ps))

TypedRead(kind, ps) ==
    CASE kind = "ReadByte" -> ReadByte(ps)
      [] kind = "ReadVarInt" -> ReadVarInt(ps)
      [] kind = "ReadString" -> ReadString(ps)
      [] kind = "ReadUInt16" -> ReadUInt16(ps)
      [] kind = "ReadInt64" -> ReadInt64(ps)
      [] kind = "ReadHandshakePacket" -> ReadHandshakePacket(ps)
      [] kind = "ReadFull" -> ReadRemaining(ps)

Drained == codec.wire = <<>> /\ ~codec.open

\* Stream.WritePacket(&Packet{Data: p})
CodecWritePacket(p) ==
    /\ codec.term = "open"
    /\ Len(codec.sent) < MaxPackets
    /\ IF Drained
       THEN codec' = [FreshCodec EXCEPT !.wire = WritePacket(p), !.sent = <<p>>,
                                        !.wrote = "WritePacket", !.arg = p]
       ELSE /\ ~codec.raw
            /\ codec' = [codec EXCEPT !.wire = @ \o WritePacket(p),
                                      !.sent = Append(@, p),
                                      !.wrote = "WritePacket", !.arg = p]
    /\ UNCHANGED <<routerVars, connVars, forwardVars, listener>>

\* a peer writes bytes of its own
CodecWriteRaw(b) ==
    /\ codec.term = "open"
    /\ Drained
    /\ codec' = [FreshCodec EXCEPT !.wire = b, !.raw = TRUE, !.wrote = "raw", !.arg = b]
    /\ UNCHANGED <<routerVars, connVars, forwardVars, listener>>

\* Packet.WriteVarInt64(x), and the Packet's Data written to the stream
CodecWriteVarInt64(x) ==
    /\ codec.term = "open"
    /\ Drained
    /\ codec' = [FreshCodec EXCEPT !.wire = WriteVarInt64(x), !.raw = TRUE,
                                   !.wrote = "WriteVarInt64", !.arg = x]
    /\ UNCHANGED <<routerVars, connVars, forwardVars, listener>>

\* ping.WriteHandshakeResponse(s, StatusOf(protocolNumber))
CodecWriteHandshakeResponse(protocolNumber) ==
    /\ codec.term = "open"
    /\ Drained
    /\ codec' = [FreshCodec EXCEPT
                    !.wire = WriteHandshakeResponse(StatusOf(protocolNumber)),
                    !.sent = << NewPacketWithID(0)
                                \o WriteString(MarshalStatusResponse(StatusOf(protocolNumber))) >>,
                    !.wrote = "WriteHandshakeResponse", !.arg = protocolNumber]
    /\ UNCHANGED <<routerVars, connVars, forwardVars, listener>>

\* the writer ends the stream
CodecEnd ==
    /\ codec.term = "open"
    /\ codec' = [codec EXCEPT !.term = "fin"]
    /\ UNCHANGED <<routerVars, connVars, forwardVars, listener>>

\* Stream.ReadVarInt64 on the stream itself
CodecReadVarInt64 ==
    /\ ~codec.open
    /\ \E f \in { ReadVarInt64(CodecReader) } :
           /\ f.err # "block"
           /\ codec' = [codec EXCEPT !.wire = f.r.buf, !.n = f.r.n, !.raw = TRUE,
                                     !.sent = <<>>,
                                     !.op = "ReadVarInt64", !.err = f.err, !.val = f.val]
    /\ UNCHANGED <<routerVars, connVars, forwardVars, listener>>

\* Stream.GetPacketStream
CodecGetPacketStream ==
    /\ ~codec.open
    /\ \E f \in { GetPacketStream(CodecReader) } :
           /\ f.err # "block"
           /\ codec' = [codec EXCEPT
                           !.wire = f.r.buf, !.open = (f.err = "nil"),
                           !.L = f.val, !.N = f.r.N, !.n = 0, !.read = <<>>,
                           !.cur = IF codec.sent = <<>> THEN <<>> ELSE <<Head(codec.sent)>>,
                           !.sent = IF codec.sent = <<>> THEN <<>> ELSE Tail(codec.sent),
                           !.op = "GetPacketStream", !.err = f.err, !.val = f.val]
    /\ UNCHANGED <<routerVars, connVars, forwardVars, listener>>

\* a typed read through the PacketStream
CodecRead(kind) ==
    /\ codec.open
    /\ \E f \in { TypedRead(kind, CodecReader) } :
           /\ f.err # "block"
           /\ codec' = [codec EXCEPT
                           !.wire = f.r.buf, !.N = f.r.N, !.n = f.r.n,
                           !.read = @ \o Take(codec.wire, f.r.n - codec.n),
                           !.op = kind, !.err = f.err, !.val = f.val]
    /\ UNCHANGED <<routerVars, connVars, forwardVars, listener>>

\* PacketStream.ExhaustPacket, after which the reader drops the PacketStream
CodecExhaustPacket ==
    /\ codec.open
    /\ \E f \in { ExhaustPacket(CodecReader) } :
           /\ f.err # "block"
           /\ codec' = [codec EXCEPT
                           !.wire = f.r.buf, !.N = f.r.N, !.n = f.r.n, !.open = FALSE,
                           !.op = "ExhaustPacket", !.err = f.err, !.val = f.val]
    /\ UNCHANGED <<routerVars, connVars, forwardVars, listener>>

NextCodec ==
    \/ \E p \in Payloads : CodecWritePacket(p)
    \/ \E b \in RawInputs : CodecWriteRaw(b)
    \/ \E x \in VarIntSamples : CodecWriteVarInt64(x)
    \/ CodecEnd
    \/ CodecReadVarInt64
    \/ CodecGetPacketStream
    \/ \E kind \in ReadKinds : CodecRead(kind)
    \/ CodecExhaustPacket

SpecCodec == Init /\ [][NextCodec]_vars

\* WriteHandshakeResponse for every protocol number from -1 to MaxProtocol, and
\* a reader that takes the response off the stream: the frame, then all of it
NextStatus ==
    \/ \E protocolNumber \in (0 - 1)..MaxProtocol :
           CodecWriteHandshakeResponse(protocolNumber)
    \/ CodecEnd
    \/ CodecGetPacketStream
    \/ CodecRead("ReadFull")
    \/ CodecExhaustPacket

SpecStatus == Init /\ [][NextStatus]_vars

(***************************************************************************)
(* Properties.  Helpers first: they describe bytes and tables without the  *)
(* operators of the model, so that a property compares the model with      *)
(* something other than itself.                                            *)
(***************************************************************************)
\* the keys the model's hostnames lowercase to: "mc" and "x"
HostKeys == { <<109, 99>>, <<120>> }

IsLowercase(s) == \A i \in 1..Len(s) : s[i] \notin 65..90

\* k is s with its capital letters replaced by the small ones
FoldsTo(s, k) ==
    /\ Len(k) = Len(s)
    /\ \A i \in 1..Len(s) : k[i] = s[i] \/ (s[i] \in 65..90 /\ k[i] = s[i] + 32)

\* the binding of k in the map m: <<v>>, or <<>> when k is not bound
Binding(m, k) == IF k \in DOMAIN m THEN <<m[k]>> ELSE <<>>

\* the keys none of the hostnames folds to
Untouched(hostnames) ==
    { k \in HostKeys : \A i \in 1..Len(hostnames) : ~FoldsTo(hostnames[i], k) }

\* the frame of one packet with a body shorter than 127 bytes
Frame(id, body) == <<Len(body) + 1, id>> \o body

\* a string shorter than 128 bytes, as it is on the wire
WireString(text) == <<Len(text)>> \o text

\* the JSON documents of the two StatusValues, as a client receives them:
\* {"version":{"name":"1lann/beacon 1.8.9","protocol":47},
\*  "players":{"max":100,"online":3},"description":"hi"}          and
\* {"version":{"name":"1lann/beacon future","protocol":108},
\*  "players":{"max":20,"online":0},"description":"a\"b"}
StatusJSON(status) ==
    IF status.ProtocolNumber = 47
    THEN <<123, 34, 118, 101, 114, 115, 105, 111, 110, 34, 58, 123, 34, 110, 97, 109,
           101, 34, 58, 34, 49, 108, 97, 110, 110, 47, 98, 101, 97, 99, 111, 110, 32,
           49, 46, 56, 46, 57, 34, 44, 34, 112, 114, 111, 116, 111, 99, 111, 108, 34,
           58, 52, 55, 125, 44, 34, 112, 108, 97, 121, 101, 114, 115, 34, 58, 123, 34,
           109, 97, 120, 34, 58, 49, 48, 48, 44, 34, 111, 110, 108, 105, 110, 101, 34,
           58, 51, 125, 44, 34, 100, 101, 115, 99, 114, 105, 112, 116, 105, 111, 110,
           34, 58, 34, 104, 105, 34, 125>>
    ELSE <<123, 34, 118, 101, 114, 115, 105, 111, 110, 34, 58, 123, 34, 110, 97, 109,
           101, 34, 58, 34, 49, 108, 97, 110, 110, 47, 98, 101, 97, 99, 111, 110, 32,
           102, 117, 116, 117, 114, 101, 34, 44, 34, 112, 114, 111, 116, 111, 99, 111,
           108, 34, 58, 49, 48, 56, 125, 44, 34, 112, 108, 97, 121, 101, 114, 115, 34,
           58, 123, 34, 109, 97, 120, 34, 58, 50, 48, 44, 34, 111, 110, 108, 105, 110,
           101, 34, 58, 48, 125, 44, 34, 100, 101, 115, 99, 114, 105, 112, 116, 105,
           111, 110, 34, 58, 34, 97, 92, 34, 98, 34, 125>>

\* the JSON strings "Hello Al" and "Hi\"" that the two handlers' messages become
LoginReplyJSON(fn) ==
    IF fn = "greet" THEN <<34, 72, 101, 108, 108, 111, 32, 65, 108, 34>>
    ELSE <<34, 72, 105, 92, 34, 34>>

\* the next pass of the packet loop runs, on a connection that is not marked
\* for closing and whose reads do not fail (the bytes in cin arrive)
LoopPass == pc = "loop" /\ ~player.ShouldClose /\ term # "rst" /\ handleConnection

\* ... and the next frame is a handshake for addr, on a connection in State 1
HandshakePass(addr) ==
    /\ player.State = 1
    /\ \E next \in {1, 2} : IsPrefix(HandshakeFrame(addr, next), cin)
    /\ LoopPass

\* C1: Routing exclusivity.  Whatever routing calls have been made, no hostname
\* is bound in both handlers and forwarders; and from any such state,
\* Forward([h], addr) followed by Handle([h], fn) leaves forwarders[h] absent
\* and handlers[h] = fn, and Handle([h], fn) followed by Forward([h], addr)
\* leaves handlers[h] absent and forwarders[h] = addr.
C1_RoutingExclusive ==
    /\ DOMAIN handlers \cap DOMAIN forwarders = {}
    /\ \A h \in HostArgs, k \in HostKeys, fn \in HandlerFns, address \in Addresses :
         LET HandleWins(t) ==
                 /\ k \notin DOMAIN t.forwarders
                 /\ Binding(t.handlers, k) = <<fn>>
             ForwardWins(t) ==
                 /\ k \notin DOMAIN t.handlers
                 /\ Binding(t.forwarders, k) = <<address>>
         IN  FoldsTo(h, k) =>
               /\ HandleWins(HandleLoop(ForwardLoop(Routes, <<h>>, address), <<h>>, fn))
               /\ ForwardWins(ForwardLoop(HandleLoop(Routes, <<h>>, fn), <<h>>, address))

\* a handler is bound for "mc" while a forwarder is bound for "x"
C1_BothTablesBound ==
    /\ <<109, 99>> \in DOMAIN handlers
    /\ <<120>> \in DOMAIN forwarders

\* C2: The status table is independent of the handler and forwarder tables.
\* Every Handle, Forward and ClearHandlers call leaves statuses as it was,
\* ClearHandlers leaves the hostnames it names bound in neither handlers nor
\* forwarders, every SetStatus and ClearStatus call leaves handlers and
\* forwarders as they were, and each call leaves the bindings of the hostnames
\* it does not name as they were in all three tables.
C2_StatusIndependent ==
    [][\A hostnames \in HostLists(HostArgs) :
         LET Kept(m, m2) == \A k \in Untouched(hostnames) : Binding(m, k) = Binding(m2, k)
             KeptAll == /\ Kept(statuses, statuses')
                        /\ Kept(handlers, handlers')
                        /\ Kept(forwarders, forwarders')
         IN  /\ (\E handler \in HandlerFns : Handle(hostnames, handler))
                  => statuses' = statuses /\ KeptAll
             /\ (\E address \in Addresses : Forward(hostnames, address))
                  => statuses' = statuses /\ KeptAll
             /\ ClearHandlers(hostnames)
                  => /\ statuses' = statuses
                     /\ KeptAll
                     /\ \A k \in HostKeys \ Untouched(hostnames) :
                          k \notin DOMAIN handlers' \cup DOMAIN forwarders'
             /\ (\E status \in StatusValues : SetStatus(hostnames, status))
                  => handlers' = handlers /\ forwarders' = forwarders /\ KeptAll
             /\ ClearStatus(hostnames)
                  => handlers' = handlers /\ forwarders' = forwarders /\ KeptAll
      ]_vars

\* "mc" has a status and neither handler nor forwarder, while "x" has a
\* forwarder and no status
C2_StatusWithoutRoute ==
    /\ <<109, 99>> \in DOMAIN statuses
    /\ <<109, 99>> \notin DOMAIN handlers \cup DOMAIN forwarders
    /\ <<120>> \in DOMAIN forwarders
    /\ <<120>> \notin DOMAIN statuses

\* C3: Hostnames are case-insensitive.  Every key of statuses, handlers and
\* forwarders is lowercase; a binding made under any spelling of a hostname is
\* stored under its lowercase form; on a handshake, player.Hostname becomes
\* the lowercase form of the serverAddress, and the connection is forwarded
\* exactly when that key is bound in forwarders, to the address bound there.
C3_CaseInsensitive ==
    /\ [](/\ \A k \in DOMAIN statuses \cup DOMAIN handlers \cup DOMAIN forwarders :
               IsLowercase(k)
          /\ IsLowercase(player.Hostname))
    /\ [][/\ \A h \in ServedHostArgs :
               LET Stored(m, v) == \E k \in DOMAIN m :
                                      IsLowercase(k) /\ FoldsTo(h, k) /\ m[k] = v
               IN  /\ \A status \in StatusValues :
                        SetStatus(<<h>>, status) => Stored(statuses', status)
                   /\ \A handler \in HandlerFns :
                        Handle(<<h>>, handler) => Stored(handlers', handler)
                   /\ \A address \in Addresses :
                        Forward(<<h>>, address) => Stored(forwarders', address)
          /\ \A addr \in ClientAddresses :
               HandshakePass(addr) =>
                   /\ IsLowercase(player'.Hostname)
                   /\ FoldsTo(addr, player'.Hostname)
                   /\ (pc' = "forward") = (player'.Hostname \in DOMAIN forwarders)
                   /\ pc' = "forward" =>
                        player'.ForwardAddress = forwarders[player'.Hostname]
         ]_vars

\* the client spelled the hostname "Mc", and the binding of "mc" answered it
C3_MixedCaseLookup ==
    /\ player.Hostname = <<109, 99>>
    /\ last.branch \in {"status sent", "login handled", "handshake forwarded"}

\* C4: Status flow.  On a connection in State 1 whose hostname has a status and
\* no forwarder, a packet 0 with an empty body is answered with exactly one
\* frame of packet id 0 whose string is the JSON document of that status as it
\* is bound when the request is handled, and the connection stays open: the
\* loop goes on and the connection is not marked for closing.
C4_StatusFlow ==
    [][( /\ player.State = 1
         /\ IsPrefix(StatusRequest, cin)
         /\ player.Hostname \in DOMAIN statuses
         /\ player.Hostname \notin DOMAIN forwarders
         /\ LoopPass )
       => /\ written' = Frame(0, WireString(StatusJSON(statuses[player.Hostname])))
          /\ cin' = Drop(cin, Len(StatusRequest))
          /\ pc' = "loop"
          /\ ~player'.ShouldClose
      ]_vars

\* a status request has been answered and the loop goes on
C4_StatusSent ==
    /\ last.branch = "status sent"
    /\ written # <<>>
    /\ pc = "loop"
    /\ ~player.ShouldClose

\* C5: Missing status.  On a connection in State 1 whose hostname has no
\* status, a packet 0 with an empty body marks the connection for closing and
\* nothing is written; the next pass of the loop then closes the socket without
\* reading a byte and without writing one.
C5_MissingStatus ==
    [][/\ ( /\ player.State = 1
            /\ IsPrefix(StatusRequest, cin)
            /\ player.Hostname \notin DOMAIN statuses
            /\ LoopPass )
          => /\ player'.ShouldClose
             /\ written' = <<>>
             /\ cin' = Drop(cin, Len(StatusRequest))
             /\ pc' = "loop"
       /\ (pc = "loop" /\ player.ShouldClose /\ handleConnection)
          => /\ pc' = "done"
             /\ cin' = cin
             /\ last'.n = 0
             /\ written' = <<>>
      ]_vars

\* the connection was closed because it had been marked for closing
C5_ClosedUnanswered ==
    /\ last.branch = "should close"
    /\ pc = "done"
    /\ written = <<>>

\* C6: Login with handler.  On a connection in State 2 whose hostname has a
\* handler, the login start carrying the name "Al" sets player.Username to
\* "Al" and, in the same pass, writes exactly one frame of packet id 0 whose
\* string is the JSON string of the message the handler returns for the player
\* with that Username; the pass reads the login frame and no byte behind it.
C6_LoginHandled ==
    [][( /\ player.State = 2
         /\ IsPrefix(LoginStart, cin)
         /\ player.Hostname \in DOMAIN handlers
         /\ LoopPass )
       => /\ player'.Username = <<65, 108>>
          /\ written' = Frame(0, WireString(LoginReplyJSON(handlers[player.Hostname])))
          /\ cin' = Drop(cin, Len(LoginStart))
          /\ last'.n = Len(LoginStart)
      ]_vars

\* the handler's message has been written for the player "Al"
C6_HandlerReplied ==
    /\ last.branch = "login handled"
    /\ player.Username = <<65, 108>>
    /\ written # <<>>

\* C7: After the pass that wrote the handler's message, the server closes the
\* connection by itself: the socket is closed, or the connection is marked so
\* that the next pass closes it.
C7_LoginReplyCloses ==
    last.branch = "login handled" => (pc = "done" \/ player.ShouldClose)

\* the frame of the rejection message
RejectFrame == Frame(0, WireString(<<34>> \o RejectMessage \o <<34>>))

\* C8: Login with missing handler.  On a connection in State 2 whose hostname
\* has neither handler nor forwarder, the login start is answered with one
\* frame carrying the rejection message, the connection is not marked for
\* closing and the loop goes on.  From then on the connection is never marked
\* for closing, and the loop ends only when a read fails (the client's close
\* included) or when the client sends packet 122.
C8_LoginRejected ==
    /\ [](last.rejected => ~player.ShouldClose)
    /\ [][/\ ( /\ player.State = 2
               /\ IsPrefix(LoginStart, cin)
               /\ player.Hostname \notin DOMAIN handlers \cup DOMAIN forwarders
               /\ LoopPass )
             => /\ written' = RejectFrame
                /\ ~player'.ShouldClose
                /\ pc' = "loop"
                /\ last'.rejected
          /\ (last.rejected /\ pc = "loop" /\ pc' # "loop")
             => /\ pc' = "done"
                /\ last'.err # "nil" \/ last'.branch = "quit"
         ]_vars

\* a rejected connection is still open and has read a further frame
C8_OpenAfterReject ==
    /\ last.rejected
    /\ last.branch \notin {"login rejected", "quit"}
    /\ last.err = "nil"
    /\ pc = "loop"

\* C8 as the specification states it: a rejected connection closes only when
\* the client closes it or a read fails.
C8_ClosedOnlyByClientOrReadError ==
    [][(last.rejected /\ pc = "loop" /\ pc' # "loop") => last'.err # "nil"]_vars

\* the bytes a nonce is made of in the codec's round trip
NonceBytes == {0, 128, 255}

\* C9: Ping echo.  A packet 1 whose body is the 8 bytes of a nonce, on a
\* connection whose hostname has a status with ShowConnection, is answered with
\* exactly one frame of packet id 1 whose body is those 8 bytes; when the
\* hostname has no status or its status hides the connection, nothing is
\* written.  The loop goes on either way.  ReadInt64 followed by WriteInt64
\* gives back the bytes read, for every nonce made of NonceBytes (the codec
\* does not depend on the state: it is evaluated before the first send).
C9_PingEcho ==
    /\ [](sends = 0 /\ term = "open" /\ statuses = EmptyMap /\ handlers = EmptyMap
            => \A nonce \in [1..8 -> NonceBytes] :
                 LET Echoed(time) == time.err = "nil" /\ WriteInt64(time.val) = nonce
                 IN  Echoed(ReadInt64(NewStream(nonce, "open"))))
    /\ [][\A nonce \in Nonces :
            (IsPrefix(PingFrame(nonce), cin) /\ LoopPass)
            => /\ written' = IF /\ player.Hostname \in DOMAIN statuses
                                /\ statuses[player.Hostname].ShowConnection
                             THEN Frame(1, nonce)
                             ELSE <<>>
               /\ cin' = Drop(cin, Len(PingFrame(nonce)))
               /\ pc' = "loop"
         ]_vars

\* a ping has been echoed
C9_PingEchoed ==
    /\ last.branch = "ping echoed"
    /\ \E nonce \in Nonces : written = Frame(1, nonce)

\* C10: Transparent forward.  When the handshake frame that made the proxy
\* forward is one of CanonicalHandshakes: the bytes the upstream has received
\* start with that frame, they are the length of player.InitialPacket followed
\* by player.InitialPacket, and they are a prefix of what the client has sent
\* from that frame on (no byte is added, repeated or reordered); while the
\* copier to the upstream runs and has nothing left to read, the upstream has
\* all of it.  The bytes written to the client while forwarding are a prefix of
\* what the upstream has sent, and all of it once the copier to the client has
\* read everything.
C10_TransparentForward ==
    /\ \A frame \in CanonicalHandshakes :
         IsPrefix(frame, tunnel) =>
            /\ upIn # <<>> =>
                 /\ IsPrefix(frame, upIn)
                 /\ frame = <<Len(player.InitialPacket)>> \o player.InitialPacket
            /\ IsPrefix(upIn, tunnel)
            /\ (pc = "wait" /\ c2u = "copy" /\ cin = <<>>) => upIn = tunnel
    /\ IsPrefix(tunOut, usent)
    /\ (pc = "wait" /\ u2c = "copy" /\ upos = Len(usent)) => tunOut = usent

\* the upstream has the handshake and the login behind it, and the client has
\* what the upstream sent
C10_Tunnelled ==
    /\ pc = "wait"
    /\ \E frame \in CanonicalHandshakes : upIn = frame \o LoginStart
    /\ upIn = tunnel
    /\ usent # <<>>
    /\ tunOut = usent

\* C11: Forward takes precedence over local replies.  A handshake whose
\* serverAddress lowercases to a hostname bound in forwarders makes the
\* connection leave the packet loop towards forwardConnection, for next state
\* 1 and for next state 2, with player.State the next state and
\* player.ForwardAddress the address bound, and the pass writes nothing.  A
\* connection that has a forward address never runs the packet loop again:
\* the proxy writes no frame of its own to that client (the last pass wrote
\* nothing and no later pass exists), whatever statuses holds, and all the
\* client receives is what the upstream sent.
C11_ForwardPrecedence ==
    /\ [](player.ForwardAddress # "" =>
             /\ pc \in {"forward", "wait", "done"}
             /\ written = <<>>
             /\ IsPrefix(tunOut, usent))
    /\ [][/\ \A addr \in ClientAddresses, next \in {1, 2}, k \in HostKeys :
               ( /\ FoldsTo(addr, k)
                 /\ k \in DOMAIN forwarders
                 /\ player.State = 1
                 /\ cin = HandshakeFrame(addr, next)
                 /\ LoopPass )
               => /\ pc' = "forward"
                  /\ player'.ForwardAddress = forwarders[k]
                  /\ player'.State = next
                  /\ written' = <<>>
          /\ pc # "loop" => (written' = written /\ pc' # "loop")
         ]_vars

\* a status ping is being forwarded although the hostname has a status
C11_PingForwarded ==
    /\ pc = "wait"
    /\ player.State = 1
    /\ player.Hostname \in DOMAIN statuses
    /\ player.Hostname \in DOMAIN forwarders

\* forwardConnection has run on a LOGIN forward and its dial succeeded
LoginForwardDialled == pc \in {"wait", "done"} /\ remote # "none" /\ player.State = 2

\* ... and the forwarder has torn down
LoginForwardTornDown == pc = "done" /\ remote = "closed" /\ player.State = 2

C13_SocketRelease ==
    /\ []((pc = "done") = (conn = "closed"))
    /\ [](pc = "done" => remote \in {"none", "closed"})
    /\ [](remote = "closed" => pc = "done")
    /\ (pc = "wait" /\ "send" \in {c2u, u2c}) ~> (conn = "closed" /\ remote = "closed")

\* the forwarder has torn down after a copier finished: both sockets are closed
C13_BothClosedAfterCopy ==
    /\ conn = "closed"
    /\ remote = "closed"
    /\ "exit" \in {c2u, u2c}

\* C14: Stop and Listen.  A step that changes the listener (Stop, an accepted
\* connection, Listen's return) changes nothing of the connection in flight,
\* of its forwarder or of the routing tables, so that connection ends only by
\* a step of its own.  Once the listener is closed no further connection is
\* accepted and it stays closed; an accept loop still running when the
\* listener is closed returns nil and nothing else, and it does return.
C14_StopListen ==
    /\ [][listener' # listener => UNCHANGED <<routerVars, connVars, forwardVars>>]_vars
    /\ [][listener.closed =>
             /\ listener'.closed
             /\ listener'.accepted = listener.accepted
             /\ listener.loop = "accept" => listener'.loop \in {"accept", "nil"}]_vars
    /\ [][(pc # "done" /\ pc' = "done") => (listener' = listener /\ handleConnection)]_vars
    /\ (listener.closed /\ listener.loop = "accept") ~> (listener.loop = "nil")

\* Listen has returned nil after Stop while the connection accepted before is
\* still served: it has had a status reply and is waiting for its next packet
C14_ServedAfterStop ==
    /\ listener.closed
    /\ listener.loop = "nil"
    /\ pc = "loop"
    /\ conn = "open"
    /\ last.branch = "status sent"
    /\ written # <<>>

\* the reader takes the written packets off one by one, and the PacketStream
\* it asked for last is for the written packet whose Data is codec.cur[1]
FramesPacket == ~codec.raw /\ codec.cur # <<>>

\* C15: Framing round trip.  For packets written with WritePacket and taken
\* off in order, GetPacketStream succeeds on every packet whose Data is not
\* empty, and fails with ErrInvalidData on a packet whose Data is empty (its
\* frame is the one byte 0).  The PacketStream it returns has the declared
\* length of the Data, yields bytes of that Data only, in order, reports as
\* remaining what of the Data is unread, and has yielded exactly the Data
\* when it reports zero.
C15_FramingRoundTrip ==
    FramesPacket =>
        /\ codec.op = "GetPacketStream" => ((codec.err = "nil") = (codec.cur[1] # <<>>))
        /\ (codec.op = "GetPacketStream" /\ codec.err # "nil") => codec.err = "ErrInvalidData"
        /\ codec.open =>
              /\ codec.L = Len(codec.cur[1])
              /\ IsPrefix(codec.read, codec.cur[1])
              /\ GetRemainingBytes(CodecReader) = Len(codec.cur[1]) - Len(codec.read)
              /\ GetRemainingBytes(CodecReader) = 0 => codec.read = codec.cur[1]

\* the first of two packets in flight has been read to its end
C15_PacketReadToEnd ==
    /\ FramesPacket
    /\ codec.open
    /\ codec.op = "ReadFull"
    /\ GetRemainingBytes(CodecReader) = 0
    /\ codec.read = <<0, 2, 65, 108>>
    /\ codec.sent # <<>>

\* C15 as the specification states it: GetPacketStream succeeds on every
\* packet that WritePacket wrote.
C15_EveryPacketFramed ==
    (FramesPacket /\ codec.op = "GetPacketStream") => codec.err = "nil"

\* the first ten bytes of b all have the high bit set
TenContinue(b) == Len(b) >= 10 /\ \A i \in 1..10 : b[i] >= 128

\* b is a 10-byte encoding: nine bytes that continue and one that ends
TenByteEncoding(b) == Len(b) = 10 /\ (\A i \in 1..9 : b[i] >= 128) /\ b[10] < 128

\* ReadVarInt64 is the first call of the reader on what the writer wrote
FirstReadVarInt64 == codec.op = "none" /\ codec'.op = "ReadVarInt64"

\* C16: VarInt codec.  Every negative value is written as 10 bytes.
\* ReadVarInt64 on the bytes WriteVarInt64(x) wrote returns x without error
\* and consumes exactly those bytes.  It accepts every 10-byte encoding whose
\* tenth byte has the high bit clear, consuming the 10 bytes.  On an input
\* whose first ten bytes all have the high bit set it returns ErrInvalidData
\* when there is an eleventh byte, and the end-of-file error when the stream
\* ends after the tenth.
C16_VarIntCodec ==
    /\ []((codec.wrote = "WriteVarInt64" /\ codec.op = "none" /\ codec.arg < 0)
             => Len(codec.wire) = 10)
    /\ [][(codec.wrote = "WriteVarInt64" /\ FirstReadVarInt64)
             => /\ codec'.err = "nil"
                /\ codec'.val = codec.arg
                /\ codec'.wire = <<>>
                /\ codec'.n = Len(codec.wire)]_vars
    /\ [][(codec.wrote = "raw" /\ FirstReadVarInt64 /\ TenByteEncoding(codec.arg))
             => (codec'.err = "nil" /\ codec'.n = 10)]_vars
    /\ [][(codec.wrote = "raw" /\ FirstReadVarInt64 /\ TenContinue(codec.arg))
             => IF Len(codec.arg) >= 11
                THEN codec'.err = "ErrInvalidData" /\ codec'.n = 11
                ELSE codec'.err = "EOF" /\ codec'.n = 10]_vars

\* ten continuing bytes and an eleventh byte have been rejected
C16_EleventhByteRejected ==
    /\ codec.wrote = "raw"
    /\ TenContinue(codec.arg)
    /\ codec.op = "ReadVarInt64"
    /\ codec.err = "ErrInvalidData"
    /\ codec.n = 11

\* C16 as the specification states it: every input whose first ten bytes all
\* have the high bit set is rejected with ErrInvalidData.
C16_TenContinuationRejected ==
    [][(codec.wrote = "raw" /\ FirstReadVarInt64 /\ TenContinue(codec.arg))
          => codec'.err = "ErrInvalidData"]_vars

\* the release table as the specification gives it: protocol and name
ReleaseTable ==
    { <<4, <<49, 46, 55, 46, 53>>>>, <<5, <<49, 46, 55, 46, 49, 48>>>>,
      <<47, <<49, 46, 56, 46, 57>>>>, <<107, <<49, 46, 57>>>> }

\* the name of the entry with the smallest protocol among those >= n, or "future"
VersionLabel(n) ==
    LET atLeast == { e \in ReleaseTable : e[1] >= n }
    IN  IF atLeast = {} THEN <<102, 117, 116, 117, 114, 101>>
        ELSE (CHOOSE e \in atLeast : \A f \in atLeast : e[1] <= f[1])[2]

\* n in decimal, for -9 <= n <= 999
Decimal(n) ==
    IF n < 0 THEN <<45, 48 - n>>
    ELSE IF n < 10 THEN <<48 + n>>
    ELSE IF n < 100 THEN <<48 + (n \div 10), 48 + (n % 10)>>
    ELSE <<48 + (n \div 100), 48 + ((n \div 10) % 10), 48 + (n % 10)>>

\* {"version":{"name":"1lann/beacon <label>","protocol":<n>},
\*  "players":{"max":100,"online":3},"description":"hi"}
ResponseJSON(n) ==
    <<123, 34, 118, 101, 114, 115, 105, 111, 110, 34, 58, 123, 34, 110, 97, 109,
      101, 34, 58, 34, 49, 108, 97, 110, 110, 47, 98, 101, 97, 99, 111, 110, 32>>
    \o VersionLabel(n)
    \o <<34, 44, 34, 112, 114, 111, 116, 111, 99, 111, 108, 34, 58>>
    \o Decimal(n)
    \o <<125, 44, 34, 112, 108, 97, 121, 101, 114, 115, 34, 58, 123, 34,
         109, 97, 120, 34, 58, 49, 48, 48, 44, 34, 111, 110, 108, 105, 110, 101, 34,
         58, 51, 125, 44, 34, 100, 101, 115, 99, 114, 105, 112, 116, 105, 111, 110,
         34, 58, 34, 104, 105, 34, 125>>

\* C17: Version label.  For every protocol number n from -1 to MaxProtocol,
\* WriteHandshakeResponse writes one frame holding packet 0 with the JSON
\* document whose version.name is "1lann/beacon " followed by the name of the
\* release-table entry with the smallest protocol >= n, or by "future" when
\* there is none (n > 107), and whose version.protocol is n; a reader of the
\* frame gets that packet.
C17_VersionLabel ==
    codec.wrote = "WriteHandshakeResponse" =>
        /\ codec.op = "none" => codec.wire = Frame(0, WireString(ResponseJSON(codec.arg)))
        /\ codec.op = "ReadFull" =>
              (codec.err = "nil" /\ codec.read = <<0>> \o WireString(ResponseJSON(codec.arg)))

\* the response for protocol 48, between two entries of the table, has been
\* read: its label is that of entry 107, "1.9"
C17_LabelBetweenEntries ==
    /\ codec.wrote = "WriteHandshakeResponse"
    /\ codec.arg = 48
    /\ codec.op = "ReadFull"
    /\ SubSeq(codec.read, 36, 40) = <<49, 46, 57, 34, 44>>

\* C18: Error policy, as the specification states it.  A pass of the packet
\* loop in which a read failed, the reads of the fields of a handshake or of
\* a login packet included, ends the connection.
C18_ErrorCloses ==
    (last.err # "nil"
       \/ last.branch \in {"handshake read error", "handshake read error, forwarded"})
        => pc = "done"

\* C19: Copier termination, as the specification states it.  Once the
\* forwarder has torn down after its copiers were started, both copiers
\* run to their end.
C19_CopiersExit ==
    (pc = "done" /\ c2u # "idle") ~> (c2u = "exit" /\ u2c = "exit")

\* C20: PacketStream bound, as the specification states it.  The remaining
\* bytes of a PacketStream are never below zero and are its declared length
\* less the bytes read through it, so that never more than the declared
\* length is read; after a successful ExhaustPacket exactly the declared
\* length has been read.
C20_PacketStreamBound ==
    /\ codec.open =>
          /\ GetRemainingBytes(CodecReader) >= 0
          /\ GetRemainingBytes(CodecReader) + codec.n = codec.L
    /\ (codec.op = "ExhaustPacket" /\ codec.err = "nil") => codec.n = codec.L

\* the well-formed requests a connection in this State may send: a handshake
\* in State 1, the login start in State 2, the empty status request and a
\* ping in either
WellFormedRequests ==
    (IF player.State = 1 THEN CanonicalHandshakes ELSE { LoginStart })
    \cup { StatusRequest } \cup { PingFrame(nonce) : nonce \in Nonces }

C22_SingleWriter ==
    /\ []((c2u # "idle" \/ u2c # "idle") => pc \in {"wait", "done"})
    /\ [][written' # written
             => (handleConnection /\ c2u = "idle" /\ u2c = "idle" /\ tunOut' = tunOut)]_vars
    /\ [][tunOut' # tunOut
             => (copyRemoteToClient /\ pc = "wait" /\ pc' = "wait" /\ written' = written)]_vars
    /\ [][(pc \in {"forward", "wait", "done"}) => (written' = written)]_vars

\* the copier from the upstream has written to the client while both copiers
\* run and handleConnection waits
C22_CopierWrote ==
    /\ tunOut # <<>>
    /\ pc = "wait"
    /\ c2u = "copy"
    /\ u2c = "copy"

\* the handshakes a client sends, with the key their address is looked up
\* under and the next state they ask for
LocalHandshakes ==
    { [frame |-> HandshakeFrame(<<77, 99>>, next), key |-> <<109, 99>>, next |-> next] :
          next \in {1, 2} }
    \cup { [frame |-> HandshakeFrame(<<120>>, next), key |-> <<120>>, next |-> next] :
          next \in {1, 2} }
    \cup { [frame |-> OddHandshake, key |-> <<120>>, next |-> 3] }

\* C23: Local-branch state domain.  A handshake for a hostname without a
\* forwarder sets the connection's State to its next state when that is 1 or
\* 2 and leaves the State as it is otherwise, and sets no forward address; so
\* the State of a connection without a forward address is always 1 or 2.
C23_LocalStateDomain ==
    /\ [](player.ForwardAddress = "" => player.State \in {1, 2})
    /\ [][\A hs \in LocalHandshakes :
            ( /\ player.State = 1
              /\ IsPrefix(hs.frame, cin)
              /\ hs.key \notin DOMAIN forwarders
              /\ LoopPass )
            => /\ player'.State = IF hs.next \in {1, 2} THEN hs.next ELSE player.State
               /\ player'.Hostname = hs.key
               /\ player'.ForwardAddress = ""
               /\ pc' = "loop"]_vars

\* the handshake that asks for next state 3 has been handled locally: the
\* State is still 1
C23_OddNextStateIgnored ==
    /\ last.branch = "handshake"
    /\ last.n = Len(OddHandshake)
    /\ player.Hostname = <<120>>
    /\ player.State = 1
    /\ pc = "loop"

\* the connection is in State 2 and is not being forwarded
LocalLogin == player.State = 2 /\ player.ForwardAddress = ""

\* C24: LOGIN is absorbing on the local branch.  From a state in which the
\* connection is in State 2 and not forwarded, no step changes its State, its
\* Hostname or its ForwardAddress, or takes it out of the packet loop other
\* than by ending it; and in such a state the bytes the last pass wrote are
\* never a status response, whatever status is bound.
C24_LoginAbsorbing ==
    /\ [](LocalLogin =>
             /\ pc \in {"loop", "done"}
             /\ remote = "none"
             /\ \A status \in StatusValues :
                    written # Frame(0, WireString(StatusJSON(status))))
    /\ [][LocalLogin =>
             /\ player'.State = 2
             /\ player'.Hostname = player.Hostname
             /\ player'.ForwardAddress = ""
             /\ pc' \in {"loop", "done"}]_vars

\* an empty packet 0 has arrived in State 2 for a hostname that has a status:
\* nothing was written
C24_StatusRequestIgnored ==
    /\ LocalLogin
    /\ last.branch = "status ignored"
    /\ player.Hostname \in DOMAIN statuses
    /\ written = <<>>
    /\ pc = "loop"

\* C25: Forward only after a parsed handshake, as the specification states
\* it.  When a forward address is set, an upstream has been dialled or bytes
\* have been written to an upstream, the handshake that led there was read
\* without error.
C25_ForwardAfterParsedHandshake ==
    (player.ForwardAddress # "" \/ remote # "none" \/ upIn # <<>>)
        => (last.branch = "handshake forwarded" /\ last.err = "nil")

=============================================================================
